---- MODULE Spec2Model ----
(***************************************************************************)
(* Model of src/customer_data_extractor.py: the CustomerDataExtractor      *)
(* class (load_data, parse_int, parse_price, transform).                   *)
(*                                                                         *)
(* Python values are tagged records.  A str is a sequence of characters,   *)
(* each character a one-token string; the token "sup2" stands for the      *)
(* single character U+00B2 (SUPERSCRIPT TWO), for which str.isdigit() is   *)
(* True and int() raises ValueError.                                       *)
(*                                                                         *)
(* A float is NaN, +inf, -inf or a finite value kept as an exact reduced   *)
(* fraction n/d.  Binary rounding of finite values is not modelled; the    *)
(* non-finite values follow IEEE 754 (inf - inf = nan, inf * 0 = nan,      *)
(* inf / inf = nan, nan compares unequal to everything, itself included).  *)
(***************************************************************************)
EXTENDS Integers, Sequences, FiniteSets, TLC

VARIABLES
    orders_file,   \* the file named by self.orders_file: its state and content
    vip_file,      \* the file named by self.vip_file: its state and text
    raw_data,      \* self.raw_data
    vip_ids,       \* self.vip_ids
    call           \* the latest call: its name, arguments and outcome

vars == <<orders_file, vip_file, raw_data, vip_ids, call>>

----------------------------------------------------------------------------
(* Bounds of the explored inputs.                                          *)

MaxStrLen == 3
MaxLines == 2
MaxLineLen == 2
MaxCustomers == 2
MaxOrders == 2
MaxItems == 2

----------------------------------------------------------------------------
(* Python values.                                                          *)

PyNone == [t |-> "None"]
PyInt(n) == [t |-> "int", v |-> n]
PyBool(b) == [t |-> "bool", b |-> b]
PyStr(s) == [t |-> "str", s |-> s]
PyFloat(f) == [t |-> "float", f |-> f]
(* A list; raw_data itself is kept as the bare sequence.                   *)
PyList(l) == [t |-> "list", l |-> l]

Absent == [t |-> "absent"]

(* dict.get(key): None when the key is absent.                             *)
Get(d, key) == IF d[key] = Absent THEN PyNone ELSE d[key]

(* dict.get(key, dflt).                                                    *)
GetOr(d, key, dflt) == IF d[key] = Absent THEN dflt ELSE d[key]

Return(v) == [out |-> "return", v |-> v]
Raise(e) == [out |-> "raise", exc |-> e]

(* r, then F on its value: an exception of r propagates.                   *)
Then(r, F(_)) == IF r.out = "raise" THEN r ELSE F(r.v)

(* try: r  except excs: return dflt.                                       *)
Except(r, excs, dflt) ==
    IF r.out = "raise" /\ r.exc \in excs THEN Return(dflt) ELSE r

----------------------------------------------------------------------------
(* Floats.                                                                 *)

NaN == [k |-> "nan", n |-> 0, d |-> 1]
PosInf == [k |-> "inf", n |-> 1, d |-> 1]
NegInf == [k |-> "inf", n |-> -1, d |-> 1]

Abs(x) == IF x < 0 THEN -x ELSE x

RECURSIVE Gcd(_, _)
Gcd(a, b) == IF b = 0 THEN a ELSE Gcd(b, a % b)

(* The finite float n/d (d > 0), reduced.                                  *)
Fin(n, d) ==
    LET g == Gcd(Abs(n), d)
    IN  [k |-> "fin", n |-> n \div g, d |-> d \div g]

Zero == Fin(0, 1)

Sign(x) == IF x > 0 THEN 1 ELSE IF x < 0 THEN -1 ELSE 0

IsNaN(f) == f.k = "nan"
IsInf(f) == f.k = "inf"
IsFin(f) == f.k = "fin"

(* float == float.                                                         *)
FEq(a, b) == ~IsNaN(a) /\ ~IsNaN(b) /\ a = b

(* float > 0.                                                              *)
FGt0(a) == ~IsNaN(a) /\ a.n > 0

(* float + float.                                                          *)
FAdd(a, b) ==
    IF IsNaN(a) \/ IsNaN(b) THEN NaN
    ELSE IF IsInf(a) /\ IsInf(b) THEN (IF a.n = b.n THEN a ELSE NaN)
    ELSE IF IsInf(a) THEN a
    ELSE IF IsInf(b) THEN b
    ELSE Fin(a.n * b.d + b.n * a.d, a.d * b.d)

(* float * float.                                                          *)
FMul(a, b) ==
    IF IsNaN(a) \/ IsNaN(b) THEN NaN
    ELSE IF IsInf(a) \/ IsInf(b)
         THEN (IF a.n = 0 \/ b.n = 0 THEN NaN
               ELSE IF Sign(a.n) * Sign(b.n) > 0 THEN PosInf ELSE NegInf)
    ELSE Fin(a.n * b.n, a.d * b.d)

(* float / float with a non-zero divisor (a zero divisor raises            *)
(* ZeroDivisionError; transform only divides by a total that is > 0).      *)
FDiv(a, b) ==
    IF IsNaN(a) \/ IsNaN(b) THEN NaN
    ELSE IF IsInf(a) /\ IsInf(b) THEN NaN
    ELSE IF IsInf(a) THEN (IF Sign(a.n) * Sign(b.n) > 0 THEN PosInf ELSE NegInf)
    ELSE IF IsInf(b) THEN Zero
    ELSE Fin(a.n * b.d * Sign(b.n), a.d * Abs(b.n))

(* float(int).                                                             *)
FOfInt(n) == Fin(n, 1)

----------------------------------------------------------------------------
(* Strings.                                                                *)

Whitespace == {" ", "\n", "\t"}
DecimalChars == <<"0", "1", "2", "3", "4", "5", "6", "7", "8", "9">>
Decimals == {DecimalChars[i] : i \in 1..10}

(* The characters c with c.isdigit(): the decimal digits and the           *)
(* digit-like characters that int() rejects.                               *)
Digits == Decimals \cup {"sup2"}

DigitVal(c) == (CHOOSE i \in 1..10 : DecimalChars[i] = c) - 1

RECURSIVE LStrip(_)
LStrip(s) ==
    IF s # <<>> /\ Head(s) \in Whitespace THEN LStrip(Tail(s)) ELSE s

RECURSIVE RStrip(_)
RStrip(s) ==
    IF s # <<>> /\ s[Len(s)] \in Whitespace
    THEN RStrip(SubSeq(s, 1, Len(s) - 1)) ELSE s

(* str.strip().                                                            *)
Strip(s) == RStrip(LStrip(s))

(* str.replace(c, '').                                                     *)
Remove(s, c) == SelectSeq(s, LAMBDA x : x # c)

(* str.isdigit().                                                          *)
IsDigit(s) == s # <<>> /\ \A i \in 1..Len(s) : s[i] \in Digits

AllDecimal(s) == \A i \in 1..Len(s) : s[i] \in Decimals

RECURSIVE NatOfDigits(_)
NatOfDigits(s) ==
    IF s = <<>> THEN 0
    ELSE 10 * NatOfDigits(SubSeq(s, 1, Len(s) - 1)) + DigitVal(s[Len(s)])

RECURSIVE Pow10(_)
Pow10(k) == IF k = 0 THEN 1 ELSE 10 * Pow10(k - 1)

(* Underscores of a numeric literal: each one must sit between two digits. *)
UnderscoresOk(s) ==
    \A i \in 1..Len(s) : s[i] = "_" =>
        /\ i > 1 /\ i < Len(s)
        /\ s[i - 1] \in Decimals /\ s[i + 1] \in Decimals

HasSign(s) == s # <<>> /\ Head(s) \in {"+", "-"}
Unsigned(s) == IF HasSign(s) THEN Tail(s) ELSE s
SignOf(s) == IF s # <<>> /\ Head(s) = "-" THEN -1 ELSE 1

IntOfUnsigned(sign, u) ==
    IF Remove(u, "_") # <<>> /\ UnderscoresOk(u) /\ AllDecimal(Remove(u, "_"))
    THEN Return(sign * NatOfDigits(Remove(u, "_")))
    ELSE Raise("ValueError")

IntOfStripped(t) == IntOfUnsigned(SignOf(t), Unsigned(t))

(* int(str): surrounding whitespace, an optional sign, decimal digits.     *)
IntOfStr(s) == IntOfStripped(Strip(s))

Lower(c) ==
    CASE c = "I" -> "i" [] c = "N" -> "n" [] c = "F" -> "f" [] c = "A" -> "a"
      [] c = "T" -> "t" [] c = "Y" -> "y" [] OTHER -> c

LowerStr(s) == [i \in 1..Len(s) |-> Lower(s[i])]

DotAt(s) == IF \E i \in 1..Len(s) : s[i] = "."
            THEN CHOOSE i \in 1..Len(s) : s[i] = "." /\ \A j \in 1..(i - 1) : s[j] # "."
            ELSE 0

(* The digits before and after the point.                                  *)
DecimalOf(sign, ip, fp) ==
    IF /\ Remove(ip, "_") \o Remove(fp, "_") # <<>>
       /\ UnderscoresOk(ip) /\ UnderscoresOk(fp)
       /\ AllDecimal(Remove(ip, "_")) /\ AllDecimal(Remove(fp, "_"))
    THEN Return(Fin(sign * NatOfDigits(Remove(ip, "_") \o Remove(fp, "_")),
                    Pow10(Len(Remove(fp, "_")))))
    ELSE Raise("ValueError")

PointSplit(sign, u, p) ==
    IF p = 0 THEN DecimalOf(sign, u, <<>>)
    ELSE DecimalOf(sign, SubSeq(u, 1, p - 1), SubSeq(u, p + 1, Len(u)))

FloatOfUnsigned(sign, u, w) ==
    IF w = <<"n", "a", "n">> THEN Return(NaN)
    ELSE IF w = <<"i", "n", "f">> \/ w = <<"i", "n", "f", "i", "n", "i", "t", "y">>
         THEN Return(IF sign < 0 THEN NegInf ELSE PosInf)
    ELSE PointSplit(sign, u, DotAt(u))

FloatOfStripped(t) == FloatOfUnsigned(SignOf(t), Unsigned(t), LowerStr(Unsigned(t)))

(* float(str): surrounding whitespace, an optional sign, then inf,         *)
(* infinity or nan in any case, or digits with at most one point.  The     *)
(* exponent part (1e5) is not covered: no modelled input carries one.      *)
FloatOfStr(s) == FloatOfStripped(Strip(s))

RECURSIVE StrOfNat(_)
StrOfNat(n) ==
    IF n < 10 THEN <<DecimalChars[n + 1]>>
    ELSE StrOfNat(n \div 10) \o <<DecimalChars[(n % 10) + 1]>>

(* str(int).                                                               *)
StrOfInt(n) == IF n < 0 THEN <<"-">> \o StrOfNat(-n) ELSE StrOfNat(n)

RECURSIVE FracDigits(_, _)
FracDigits(r, d) ==
    IF r = 0 THEN <<>>
    ELSE <<DecimalChars[((10 * r) \div d) + 1]>> \o FracDigits((10 * r) % d, d)

(* str(float) for the values of the model: 'nan', 'inf', '-inf', and the   *)
(* shortest decimal of a finite value with a finite decimal expansion.     *)
StrOfFloat(f) ==
    IF IsNaN(f) THEN <<"n", "a", "n">>
    ELSE IF IsInf(f) THEN (IF f.n < 0 THEN <<"-">> ELSE <<>>) \o <<"i", "n", "f">>
    ELSE LET a == Abs(f.n)
             fr == FracDigits(a % f.d, f.d)
         IN  (IF f.n < 0 THEN <<"-">> ELSE <<>>)
             \o StrOfNat(a \div f.d) \o <<".">>
             \o (IF fr = <<>> THEN <<"0">> ELSE fr)

(* str(value).                                                             *)
Str(v) ==
    CASE v.t = "str" -> v.s
      [] v.t = "int" -> StrOfInt(v.v)
      [] v.t = "float" -> StrOfFloat(v.f)
      [] v.t = "bool" -> IF v.b THEN <<"T", "r", "u", "e">> ELSE <<"F", "a", "l", "s", "e">>
      [] v.t = "None" -> <<"N", "o", "n", "e">>
      [] OTHER -> <<"[">> \o (IF v.l = <<>> THEN <<>> ELSE <<"x">>) \o <<"]">>

----------------------------------------------------------------------------
(* The value parsers.                                                      *)

(* int(float): truncation toward zero.                                     *)
IntOfFloat(f) ==
    IF IsNaN(f) THEN Raise("ValueError")
    ELSE IF IsInf(f) THEN Raise("OverflowError")
    ELSE Return(Sign(f.n) * (Abs(f.n) \div f.d))

(* int(value).                                                             *)
IntOf(v) ==
    CASE v.t = "int" -> Return(v.v)
      [] v.t = "bool" -> Return(IF v.b THEN 1 ELSE 0)
      [] v.t = "float" -> IntOfFloat(v.f)
      [] v.t = "str" -> IntOfStr(v.s)
      [] OTHER -> Raise("TypeError")

(* parse_int(value, default).                                              *)
parse_int(value, default) == Except(IntOf(value), {"ValueError", "TypeError"}, default)

(* parse_price(price_raw).                                                 *)
parse_price(price_raw) ==
    Except(FloatOfStr(Strip(Remove(Remove(Str(price_raw), "$"), ","))),
           {"ValueError", "AttributeError"}, Zero)

----------------------------------------------------------------------------
(* transform().                                                            *)

(* CATEGORY_MAPPING.get(code, 'Misc'): a dict lookup by hash and equality, *)
(* so True and 1.0 find the key 1; an unhashable key raises TypeError.     *)
CATEGORY_MAPPING(code) ==
    CASE code = 1 -> "Electronics"
      [] code = 2 -> "Apparel"
      [] code = 3 -> "Books"
      [] code = 4 -> "Home Goods"

CategoryKeys == 1..4

CategoryKey(v) ==
    CASE v.t = "int" -> v.v
      [] v.t = "bool" -> (IF v.b THEN 1 ELSE 0)
      [] v.t = "float" /\ IsFin(v.f) /\ v.f.d = 1 -> v.f.n
      [] OTHER -> 0

(* CATEGORY_MAPPING.get(code) with no default: None for an unknown code.   *)
CategoryGetNoDefault(v) ==
    IF v.t = "list" THEN Raise("TypeError")
    ELSE IF CategoryKey(v) \in CategoryKeys THEN Return(CATEGORY_MAPPING(CategoryKey(v)))
    ELSE Return("None")

CategoryGet(v) ==
    IF v.t = "list" THEN Raise("TypeError")
    ELSE IF CategoryKey(v) \in CategoryKeys THEN Return(CATEGORY_MAPPING(CategoryKey(v)))
    ELSE Return("Misc")

StripValue(v) == IF v.t = "str" THEN Return(Strip(v.s)) ELSE Raise("AttributeError")

(* value.strip() of a dict field read with .get(key, ''): only a str has   *)
(* the method.                                                             *)
StripField(d, key) == StripValue(GetOr(d, key, PyStr(<<>>)))

DateTexts == {<<"2", "0", "2", "3", "-", "0", "1", "-", "0", "5">>}
Epoch == <<"1", "9", "7", "0", "-", "0", "1", "-", "0", "1">>

(* A pandas Timestamp: midnight of a day and an offset in nanoseconds.     *)
Timestamp(day, ns) == [t |-> "Timestamp", day |-> day, ns |-> ns]
NaT == [t |-> "NaT"]
DatetimeIndex(l) == [t |-> "DatetimeIndex", l |-> l]

(* One scalar under errors='coerce': a date text is its day, a number is   *)
(* that many nanoseconds after the epoch (a float loses its fraction),     *)
(* and what does not convert (other text, nan, inf, a bool, None inside    *)
(* a list) is NaT.                                                         *)
DatetimeOf(v) ==
    CASE v.t = "str" -> IF v.s \in DateTexts THEN Timestamp(v.s, 0) ELSE NaT
      [] v.t = "int" -> Timestamp(Epoch, v.v)
      [] v.t = "float" ->
            IF IsFin(v.f) THEN Timestamp(Epoch, Sign(v.f.n) * (Abs(v.f.n) \div v.f.d))
            ELSE NaT
      [] OTHER -> NaT

(* pd.to_datetime(value, errors='coerce'): None stays None, a list gives   *)
(* the DatetimeIndex of its elements (a list of lists is no 1-d array:     *)
(* TypeError), a scalar gives its Timestamp or NaT.                        *)
to_datetime(v) ==
    CASE v.t = "None" -> Return(PyNone)
      [] v.t = "list" ->
            IF \E i \in 1..Len(v.l) : v.l[i].t = "list" THEN Raise("TypeError")
            ELSE Return(DatetimeIndex([i \in 1..Len(v.l) |-> DatetimeOf(v.l[i])]))
      [] OTHER -> Return(DatetimeOf(v))

(* for x in value: the elements of a list; None is not iterable.           *)
Iter(v) == IF v.t = "list" THEN Return(v.l) ELSE Raise("TypeError")

(* parse_price(item.get('price', 0.0)).                                    *)
ItemPrice(item) == parse_price(GetOr(item, "price", PyFloat(Zero)))

(* parse_int(item.get('quantity')).                                        *)
ItemQuantity(item) == parse_int(Get(item, "quantity"), 0)

(* parse_price(item.get('price', 0.0)) * parse_int(item.get('quantity')).  *)
ItemTotal(item) ==
    Then(ItemPrice(item), LAMBDA p :
    Then(ItemQuantity(item), LAMBDA q :
    Return(FMul(p, FOfInt(q)))))

(* sum(... for item in items): the items are visited in order, the first   *)
(* exception ends the sum.                                                 *)
RECURSIVE SumFrom(_, _)
SumFrom(acc, items) ==
    IF items = <<>> THEN Return(acc)
    ELSE Then(ItemTotal(Head(items)), LAMBDA x : SumFrom(FAdd(acc, x), Tail(items)))

OrderTotal(items) == SumFrom(Zero, items)

(* total_order_value_percentage of one item.                               *)
Percentage(total_item, order_total) ==
    IF FGt0(order_total)
    THEN FMul(FDiv(total_item, order_total), FOfInt(100))
    ELSE Zero

(* The dict built for one item (lines 90-107); its values are evaluated    *)
(* in the order written, the first exception wins.                         *)
ItemRecord(item, c, o, order_total) ==
    Then(parse_int(Get(item, "item_id"), 0), LAMBDA product_id :
    Then(StripField(item, "product_name"), LAMBDA product_name :
    Then(CategoryGet(Get(item, "category")), LAMBDA category :
    Then(ItemPrice(item), LAMBDA unit_price :
    Then(ItemQuantity(item), LAMBDA item_quantity :
    Then(ItemTotal(item), LAMBDA total_item_price :
    Return([customer_id |-> c.customer_id,
            customer_name |-> c.customer_name,
            registration_date |-> c.registration_date,
            is_vip |-> c.is_vip,
            order_id |-> o.order_id,
            order_date |-> o.order_date,
            product_id |-> product_id,
            product_name |-> product_name,
            category |-> category,
            unit_price |-> unit_price,
            item_quantity |-> item_quantity,
            total_item_price |-> total_item_price,
            total_order_value_percentage |->
                Percentage(total_item_price, order_total)])))))))

RECURSIVE ItemRecords(_, _, _, _)
ItemRecords(items, c, o, order_total) ==
    IF items = <<>> THEN Return(<<>>)
    ELSE Then(ItemRecord(Head(items), c, o, order_total), LAMBDA r :
         Then(ItemRecords(Tail(items), c, o, order_total), LAMBDA rest :
         Return(<<r>> \o rest)))

(* The body of the loop over one customer's orders (lines 79-109).         *)
OrderRecords(order, c) ==
    Then(parse_int(Get(order, "order_id"), 0), LAMBDA order_id :
    Then(to_datetime(Get(order, "order_date")), LAMBDA order_date :
    Then(Iter(GetOr(order, "items", PyList(<<>>))), LAMBDA items :
    Then(OrderTotal(items), LAMBDA order_total :
    ItemRecords(items, c,
                [order_id |-> order_id, order_date |-> order_date],
                order_total)))))

RECURSIVE OrdersRecords(_, _)
OrdersRecords(orders, c) ==
    IF orders = <<>> THEN Return(<<>>)
    ELSE Then(OrderRecords(Head(orders), c), LAMBDA r :
         Then(OrdersRecords(Tail(orders), c), LAMBDA rest :
         Return(r \o rest)))

(* The body of the loop over the customers (lines 73-109).                 *)
CustomerRecords(customer, vips) ==
    Then(parse_int(Get(customer, "id"), 0), LAMBDA customer_id :
    Then(StripField(customer, "name"), LAMBDA customer_name :
    Then(to_datetime(Get(customer, "registration_date")), LAMBDA registration_date :
    Then(Iter(GetOr(customer, "orders", PyList(<<>>))), LAMBDA orders :
    OrdersRecords(orders,
                  [customer_id |-> customer_id,
                   customer_name |-> customer_name,
                   registration_date |-> registration_date,
                   is_vip |-> customer_id \in vips])))))

(* flat_records after the loop of lines 72-109.                            *)
RECURSIVE FlatRecords(_, _)
FlatRecords(data, vips) ==
    IF data = <<>> THEN Return(<<>>)
    ELSE Then(CustomerRecords(Head(data), vips), LAMBDA r :
         Then(FlatRecords(Tail(data), vips), LAMBDA rest :
         Return(r \o rest)))

(* A DataFrame is the sequence of its rows, each a pair of its index       *)
(* label and its record.  pd.DataFrame(flat_records) labels the rows       *)
(* 0..n-1 in list order.                                                   *)
DataFrame(records) == [i \in 1..Len(records) |-> [index |-> i - 1, rec |-> records[i]]]

(* A cell of a datetime64[ns] column: None becomes NaT.                    *)
DateCell(x) == IF x = PyNone THEN NaT ELSE x

(* The cell holds an index, which is not convertible to datetime.          *)
IsIndexCell(x) == x.t = "DatetimeIndex"

(* df.astype(COLUMN_TYPES): a frame built from an empty list has no        *)
(* columns, and a type given for a missing column raises KeyError; a       *)
(* DatetimeIndex in a cell of a date column raises TypeError.  The other   *)
(* values the loop produces already have the types of COLUMN_TYPES.        *)
AsType(frame) ==
    IF frame = <<>> THEN Raise("KeyError")
    ELSE IF \E i \in 1..Len(frame) :
                \/ IsIndexCell(frame[i].rec.registration_date)
                \/ IsIndexCell(frame[i].rec.order_date)
    THEN Raise("TypeError")
    ELSE Return([i \in 1..Len(frame) |->
                    [frame[i] EXCEPT !.rec.registration_date = DateCell(@),
                                     !.rec.order_date = DateCell(@)]])

SortKey(row) == <<row.rec.customer_id, row.rec.order_id, row.rec.product_id>>

(* a <= b in the lexicographic order of the sort key.                      *)
KeyLeq(a, b) ==
    \/ a[1] < b[1]
    \/ a[1] = b[1] /\ a[2] < b[2]
    \/ a[1] = b[1] /\ a[2] = b[2] /\ a[3] <= b[3]

(* A row put into a sorted frame after the rows whose key is <= its own.   *)
RECURSIVE Insert(_, _)
Insert(row, sorted) ==
    IF sorted = <<>> THEN <<row>>
    ELSE IF KeyLeq(SortKey(Head(sorted)), SortKey(row))
         THEN <<Head(sorted)>> \o Insert(row, Tail(sorted))
         ELSE <<row>> \o sorted

RECURSIVE SortInto(_, _)
SortInto(sorted, frame) ==
    IF frame = <<>> THEN sorted
    ELSE SortInto(Insert(Head(frame), sorted), Tail(frame))

(* sort_values without inplace=True: the sorted copy is dropped.           *)
sort_values_dropped(frame) == frame

(* df.sort_values(by=['customer_id', 'order_id', 'product_id']): a stable  *)
(* sort; each row keeps its index label.                                   *)
sort_values(frame) == SortInto(<<>>, frame)

(* df.reset_index(drop=True).                                              *)
reset_index(frame) == [i \in 1..Len(frame) |-> [index |-> i - 1, rec |-> frame[i].rec]]

(* transform() on the loaded raw_data and vip_ids.                         *)
transform(data, vips) ==
    Then(FlatRecords(data, vips), LAMBDA flat_records :
    Then(AsType(DataFrame(flat_records)), LAMBDA typed :
    Return(reset_index(sort_values(typed)))))

----------------------------------------------------------------------------
(* load_data().                                                            *)

ORDERS_LABEL == "Failed to load orders file"
VIP_LABEL == "Failed to load VIP customer IDs"

RuntimeError(label) == [type |-> "RuntimeError", label |-> label]

(* {int(line.strip()) for line in f if line.strip().isdigit()}: the lines  *)
(* are visited in order and the first exception of int() ends the          *)
(* comprehension.                                                          *)
(* for line in f: the text cut after each newline; the last line is the    *)
(* rest when the text does not end in a newline.                           *)
RECURSIVE ReadLines(_)
ReadLines(text) ==
    IF text = <<>> THEN <<>>
    ELSE IF \A i \in 1..Len(text) : text[i] # "\n" THEN <<text>>
    ELSE LET n == CHOOSE i \in 1..Len(text) :
                      text[i] = "\n" /\ \A j \in 1..(i - 1) : text[j] # "\n"
         IN  <<SubSeq(text, 1, n)>> \o ReadLines(SubSeq(text, n + 1, Len(text)))

RECURSIVE VipSet(_, _)
VipSet(acc, lines) ==
    IF lines = <<>> THEN Return(acc)
    ELSE IF ~IsDigit(Strip(Head(lines))) THEN VipSet(acc, Tail(lines))
    ELSE Then(IntOfStr(Strip(Head(lines))), LAMBDA n : VipSet(acc \cup {n}, Tail(lines)))

(* The first try block (lines 42-46).                                      *)
LoadOrders(file) ==
    IF file.st = "ok" THEN Return(file.data)
    ELSE Raise(RuntimeError(ORDERS_LABEL))

(* except: pass in the second try block: the failure is swallowed.         *)
LoadVipsSwallowed(file) ==
    IF file.st = "ok" /\ VipSet({}, ReadLines(file.text)).out = "return"
    THEN VipSet({}, ReadLines(file.text))
    ELSE Return({})

(* The second try block (lines 48-52): every Exception, the ones of the    *)
(* comprehension included, becomes the RuntimeError of the VIP source.     *)
LoadVips(file) ==
    IF file.st = "ok" /\ VipSet({}, ReadLines(file.text)).out = "return"
    THEN VipSet({}, ReadLines(file.text))
    ELSE Raise(RuntimeError(VIP_LABEL))

----------------------------------------------------------------------------
(* The explored inputs.                                                    *)

(* All sequences over S of length at most n.                               *)
SeqsUpTo(S, n) == UNION {[1..k -> S] : k \in 0..n}

S1(a) == <<a>>
S2(a, b) == <<a, b>>
L1(a) == PyList(<<a>>)

(* Values of many types, for one field at a time.                          *)
Wide ==
    { PyNone, PyList(<<>>), PyBool(TRUE),
      PyInt(0), PyInt(2), PyInt(-3), PyInt(99),
      PyFloat(Fin(37, 10)), PyFloat(Fin(-37, 10)), PyFloat(Fin(2, 1)),
      PyFloat(NaN), PyFloat(PosInf), PyFloat(NegInf),
      PyStr(<<"4", "2">>), PyStr(<<"a", "b", "c">>), PyStr(<<"b", "a", "d">>),
      PyStr(<<" ", "7", "\n">>), PyStr(<<"-", "5">>), PyStr(<<"2">>),
      PyStr(<<"1", "_", "0">>), PyStr(<<"sup2">>), PyStr(<<"i", "n", "f">>),
      PyStr(<<"$", "1", ",", "2", "3", "4", ".", "5", "0">>),
      PyStr(<<"2", "0", "2", "3", "-", "0", "1", "-", "0", "5">>) }

ParseChars == {"$", ",", ".", "1", "5", " ", "-", "n", "a"}

(* The arguments of the parser calls.                                      *)
ParseArgs == Wide \cup {PyStr(s) : s \in SeqsUpTo(ParseChars, MaxStrLen)}

Defaults == {0, -1}

LineChars == {"7", "x", "sup2"}

(* The body of a line of a text file, without its newline.                 *)
LineBodies ==
    SeqsUpTo(LineChars, MaxLineLen)
        \cup {<<"4", "2">>, <<" ", " ", "7">>, <<"x", "9">>, <<"-", "7">>,
              <<" ">>, <<"7", " ", "7">>, <<"\t", "7", " ">>}

VipFile(text) == [st |-> "ok", text |-> text]
VipMissing == [st |-> "missing", text |-> <<>>]

(* The text of the lines, one after the other.                             *)
RECURSIVE Flatten(_)
Flatten(lines) == IF lines = <<>> THEN <<>> ELSE Head(lines) \o Flatten(Tail(lines))

(* A file with the lines 42, 7 after two spaces, x9 and a blank line.      *)
ExampleText == <<"4", "2", "\n", " ", " ", "7", "\n", "x", "9", "\n", "\n">>

VipFilesFew == {VipFile(<<"1">>), VipFile(<<"0", "\n", "x">>)}

Item(id, name, cat, price, qty) ==
    [item_id |-> id, product_name |-> name, category |-> cat,
     price |-> price, quantity |-> qty]

Order(id, date, items) == [order_id |-> id, order_date |-> date, items |-> items]

Customer(id, name, reg, orders) ==
    [id |-> id, name |-> name, registration_date |-> reg, orders |-> orders]

Pen == PyStr(<<" ", "p", "e", "n">>)
Ann == PyStr(<<"A", "n", "n", " ">>)
Day == PyStr(<<"2", "0", "2", "3", "-", "0", "1", "-", "0", "5">>)
Price150 == PyStr(<<"$", "1", ".", "5", "0">>)

(* Nested structures: identifiers that parse, that default to 0 and that   *)
(* repeat; absent and empty collections.                                   *)
ItemIds == {PyInt(2), PyStr(<<"1">>)}
OrderIds == {PyInt(1), PyNone}
CustomerIds == {PyInt(1), PyStr(<<"x">>)}

NestItem(i) == Item(i, Pen, PyInt(2), Price150, PyInt(2))

(* The non-decreasing maps of 1..n into 1..m: which parent each of n       *)
(* children belongs to, the children listed parent by parent.              *)
Owners(n, m) == {f \in [1..n -> 1..m] : \A i \in 1..(n - 1) : f[i] <= f[i + 1]}

(* The children of parent p under own, as a sequence of their numbers.     *)
ChildrenOf(p, own) ==
    LET before == Cardinality({i \in DOMAIN own : own[i] < p})
        count == Cardinality({i \in DOMAIN own : own[i] = p})
    IN  [j \in 1..count |-> before + j]

(* The nested data with the customers cid, the orders oid owned by the     *)
(* customers own, and the items iid ordered by the orders ord.             *)
Nest(cid, oid, own, iid, ord) ==
    [c \in DOMAIN cid |->
        Customer(cid[c], Ann, Day,
            PyList([j \in DOMAIN ChildrenOf(c, own) |->
                LET o == ChildrenOf(c, own)[j]
                IN  Order(oid[o], Day,
                        PyList([k \in DOMAIN ChildrenOf(o, ord) |->
                            NestItem(iid[ChildrenOf(o, ord)[k]])]))]))]

(* One order of one customer: raw prices and quantities of every kind.     *)
Prices ==
    {Price150, PyInt(2), PyStr(<<"-", "1">>), PyStr(<<"n", "a", "n">>), PyFloat(PosInf)}
Quantities == {PyInt(1), PyInt(3), PyStr(<<"x">>)}

PriceItems == {Item(PyInt(1), Pen, PyInt(1), p, q) : p \in Prices, q \in Quantities}

PriceData(items) == S1(Customer(PyInt(1), Ann, Day, L1(Order(PyInt(1), Day, PyList(items)))))

(* One item of one order of one customer: one field at a time of any type. *)
BaseItem == Item(PyInt(1), Pen, PyInt(2), Price150, PyInt(2))
BaseOrder == Order(PyInt(1), Day, L1(BaseItem))
BaseCustomer == Customer(PyInt(1), Ann, Day, L1(BaseOrder))

FieldValues == Wide \cup {Absent}

ItemFields == {"item_id", "product_name", "category", "price", "quantity"}
Collections == {Absent, PyNone, PyList(<<>>)}
Categories == FieldValues \cup {PyInt(1), PyInt(3), PyInt(4), PyInt(5)}

OneItem(item) == S1(Customer(PyInt(1), Ann, Day, L1(Order(PyInt(1), Day, L1(item)))))

FieldData ==
    {OneItem([BaseItem EXCEPT ![f] = v]) : f \in ItemFields, v \in FieldValues}
        \cup {OneItem([BaseItem EXCEPT !.category = v]) : v \in Categories}
        \cup {S1([BaseCustomer EXCEPT !.orders = L1([BaseOrder EXCEPT ![f] = v])]) :
                 f \in {"order_id", "order_date"}, v \in FieldValues}
        \cup {S1([BaseCustomer EXCEPT ![f] = v]) :
                 f \in {"id", "name", "registration_date"}, v \in FieldValues}
        \cup {S1([BaseCustomer EXCEPT !.orders = v]) : v \in Collections}
        \cup {S1([BaseCustomer EXCEPT !.orders = L1([BaseOrder EXCEPT !.items = v])]) :
                 v \in Collections}
        \cup {S2([BaseCustomer EXCEPT !.orders = v], BaseCustomer) : v \in Collections}

OrdersFile(data) == [st |-> "ok", data |-> data]
OrdersMissing == [st |-> "missing", data |-> <<>>]
OrdersCorrupt == [st |-> "corrupt", data |-> <<>>]

OrdersFilesFew ==
    {OrdersMissing, OrdersCorrupt, OrdersFile(<<>>), OrdersFile(S1(BaseCustomer))}

----------------------------------------------------------------------------
(* The extractor as a state machine.                                       *)

NoCall == [op |-> "__init__"]

(* CustomerDataExtractor(orders_file, vip_file): lines 34-38.              *)
Constructed ==
    /\ raw_data = <<>>
    /\ vip_ids = {}
    /\ call = NoCall

(* Nested data of at most MaxCustomers customers, MaxOrders orders and     *)
(* MaxItems items.                                                         *)
InitNest ==
    \E nc \in 0..MaxCustomers, no \in 0..MaxOrders, ni \in 0..MaxItems :
        \E cid \in [1..nc -> CustomerIds], oid \in [1..no -> OrderIds],
           iid \in [1..ni -> ItemIds], own \in Owners(no, nc), ord \in Owners(ni, no) :
            /\ orders_file = OrdersFile(Nest(cid, oid, own, iid, ord))
            /\ vip_file = VipFile(<<"0", "\n", "x">>)

(* One order of at most MaxItems items.                                    *)
InitPrice ==
    \E k \in 0..MaxItems : \E items \in [1..k -> PriceItems] :
        /\ orders_file = OrdersFile(PriceData(items))
        /\ vip_file = VipFile(<<"1">>)

InitField ==
    /\ orders_file \in {OrdersFile(d) : d \in FieldData} \cup {OrdersMissing, OrdersCorrupt}
    /\ vip_file \in VipFilesFew

Init ==
    /\ InitNest \/ InitPrice \/ InitField
    /\ Constructed

(* A VIP file of at most MaxLines lines: a newline ends every line but     *)
(* possibly the last.                                                      *)
InitLines ==
    \E k \in 0..MaxLines : \E bodies \in [1..k -> LineBodies], nl \in {<<>>, <<"\n">>} :
        /\ orders_file = OrdersFile(S1(BaseCustomer))
        /\ vip_file = VipFile(Flatten([i \in 1..k |->
                                          bodies[i] \o (IF i < k THEN <<"\n">> ELSE nl)]))

InitFiles ==
    /\ orders_file \in OrdersFilesFew
    /\ vip_file \in VipFilesFew \cup {VipMissing, VipFile(ExampleText), VipFile(<<"sup2">>)}

InitLoad ==
    /\ InitLines \/ InitFiles
    /\ Constructed

InitParse ==
    /\ orders_file = OrdersMissing
    /\ vip_file = VipMissing
    /\ Constructed

(* The state load_data() leaves, and its outcome: the VIP source is read   *)
(* only after the orders source has loaded.                                *)
Loaded(o, v) ==
    /\ raw_data' = IF o.out = "return" THEN o.v ELSE raw_data
    /\ vip_ids' = IF o.out = "return" /\ v.out = "return" THEN v.v ELSE vip_ids
    /\ call' = [op |-> "load_data",
                res |-> IF o.out = "raise" THEN o
                        ELSE IF v.out = "raise" THEN v
                        ELSE Return(PyNone)]

(* extractor.load_data().                                                  *)
LoadData ==
    /\ Loaded(LoadOrders(orders_file), LoadVips(vip_file))
    /\ UNCHANGED <<orders_file, vip_file>>

(* extractor.transform().                                                  *)
Transform ==
    /\ call' = [op |-> "transform", res |-> transform(raw_data, vip_ids)]
    /\ UNCHANGED <<orders_file, vip_file, raw_data, vip_ids>>

(* CustomerDataExtractor.parse_int(value, default).                        *)
ParseInt ==
    \E value \in ParseArgs, default \in Defaults :
        /\ call' = [op |-> "parse_int", value |-> value, default |-> default,
                    res |-> parse_int(value, default)]
        /\ UNCHANGED <<orders_file, vip_file, raw_data, vip_ids>>

(* CustomerDataExtractor.parse_price(price_raw).                           *)
ParsePrice ==
    \E price_raw \in ParseArgs :
        /\ call' = [op |-> "parse_price", value |-> price_raw,
                    res |-> parse_price(price_raw)]
        /\ UNCHANGED <<orders_file, vip_file, raw_data, vip_ids>>

Next == LoadData \/ Transform

NextLoad == LoadData

NextParse == ParseInt \/ ParsePrice

Spec == Init /\ [][Next]_vars

SpecLoad == InitLoad /\ [][NextLoad]_vars

SpecParse == InitParse /\ [][NextParse]_vars

----------------------------------------------------------------------------
(* What the properties read of a state.                                    *)

Returned(op) == call.op = op /\ call.res.out = "return"
Raised(op) == call.op = op /\ call.res.out = "raise"

(* The table transform() returned.                                         *)
Rows == call.res.v

(* A nested collection of the source, an absent one taken as empty.        *)
ListOf(d, key) == IF d[key] = Absent THEN <<>> ELSE d[key].l

IsListOrAbsent(v) == v = Absent \/ v.t = "list"

(* Every nested collection of the source is a list or absent.              *)
WellNested ==
    \A ci \in 1..Len(raw_data) :
        /\ IsListOrAbsent(raw_data[ci].orders)
        /\ \A oi \in 1..Len(ListOf(raw_data[ci], "orders")) :
               IsListOrAbsent(ListOf(raw_data[ci], "orders")[oi].items)

SourceOrder(so) == ListOf(raw_data[so[1]], "orders")[so[2]]

(* The orders of the source, each as <<customer position, order position>>. *)
SourceOrders ==
    UNION {{<<ci, oi>> : oi \in 1..Len(ListOf(raw_data[ci], "orders"))} :
           ci \in 1..Len(raw_data)}

SourceItemsOf(so) == ListOf(SourceOrder(so), "items")

(* The items of the source, each as <<customer, order, item position>>.    *)
SourceItems ==
    UNION {{<<so[1], so[2], ii>> : ii \in 1..Len(SourceItemsOf(so))} : so \in SourceOrders}

(* The (customer_id, order_id) an order's rows carry: the identifiers as   *)
(* parsed, 0 for the ones that do not parse.                               *)
SourceKey(so) ==
    <<parse_int(Get(raw_data[so[1]], "id"), 0).v,
      parse_int(Get(SourceOrder(so), "order_id"), 0).v>>

(* The number of rows of the table with the key k.                         *)
GroupCount(k) ==
    Cardinality({i \in 1..Len(Rows) : <<Rows[i].rec.customer_id, Rows[i].rec.order_id>> = k})

(* a <= b for the triples (customer_id, order_id, product_id).             *)
LexLeq(a, b) ==
    \/ a[1] < b[1]
    \/ a[1] = b[1] /\ a[2] < b[2]
    \/ a[1] = b[1] /\ a[2] = b[2] /\ a[3] <= b[3]

RowKey(i) == <<Rows[i].rec.customer_id, Rows[i].rec.order_id, Rows[i].rec.product_id>>

(* The sum of total_order_value_percentage over the rows with the key k   *)
(* among the first n rows of the table.                                    *)
RECURSIVE GroupSum(_, _)
GroupSum(k, n) ==
    IF n = 0 THEN Zero
    ELSE IF <<Rows[n].rec.customer_id, Rows[n].rec.order_id>> = k
         THEN FAdd(GroupSum(k, n - 1), Rows[n].rec.total_order_value_percentage)
         ELSE GroupSum(k, n - 1)

(* |f - 100| <= 1e-6.                                                      *)
Near100(f) == IsFin(f) /\ Abs(f.n - 100 * f.d) * 1000000 <= f.d

(* The source is one customer with one order with one item.                *)
SingleItem ==
    /\ Len(raw_data) = 1
    /\ SourceOrders = {<<1, 1>>}
    /\ Len(SourceItemsOf(<<1, 1>>)) = 1

TheItem == SourceItemsOf(<<1, 1>>)[1]

----------------------------------------------------------------------------
(* The properties.                                                         *)

(* C1: parse_int never raises: for every value it returns the integer      *)
(* conversion of the value or, when there is none, the default.            *)
C1_ParseIntTotal ==
    call.op = "parse_int" =>
        /\ call.res.out = "return"
        /\ call.res.v = IF IntOf(call.value).out = "return"
                        THEN IntOf(call.value).v ELSE call.default

(* C2: transform() on a source in which no order contributes an item       *)
(* (no customers, no or absent orders, no or absent items) returns a       *)
(* table with zero rows.                                                   *)
C2_NoItemsGivesEmptyTable ==
    (call.op = "transform" /\ WellNested /\ SourceItems = {}) =>
        /\ call.res.out = "return"
        /\ Len(Rows) = 0

(* C3: transform() gives exactly one row per source item and drops no row  *)
(* for a malformed field: every call returns a table with as many rows as  *)
(* the source has items.  The calls that end in the OverflowError of       *)
(* parse_int (C1) or in the KeyError of the empty table (C2) are left      *)
(* aside.                                                                  *)
C3_NoRowDropped ==
    (/\ call.op = "transform"
     /\ ~(Raised("transform") /\ call.res.exc \in {"OverflowError", "KeyError"}))
        => (Returned("transform") /\ Len(Rows) = Cardinality(SourceItems))

(* The re-grouping of C3 read order by order: in a returned table the      *)
(* group of each source order's key has as many rows as the order has      *)
(* items.  Two orders that share a key share the group.                    *)
GroupIsOneOrder ==
    Returned("transform") =>
        \A so \in SourceOrders : GroupCount(SourceKey(so)) = Len(SourceItemsOf(so))

(* What the returned tables satisfy: one row per source item, and the      *)
(* group of a key has as many rows as the source orders carrying that key  *)
(* have items together.                                                    *)
GroupIsOrdersOfKey ==
    Returned("transform") =>
        /\ Len(Rows) = Cardinality(SourceItems)
        /\ \A so \in SourceOrders :
               GroupCount(SourceKey(so)) =
                   Cardinality({it \in SourceItems :
                                   SourceKey(<<it[1], it[2]>>) = SourceKey(so)})

(* C4: a load from a readable VIP source succeeds and leaves exactly the   *)
(* integers of the lines whose trimmed text is non-empty and all decimal   *)
(* digits.                                                                 *)
C4_VipLoader ==
    (call.op = "load_data" /\ orders_file.st = "ok" /\ vip_file.st = "ok") =>
        /\ call.res.out = "return"
        /\ vip_ids = {NatOfDigits(Strip(ReadLines(vip_file.text)[i])) :
                         i \in {j \in 1..Len(ReadLines(vip_file.text)) :
                                   /\ Strip(ReadLines(vip_file.text)[j]) # <<>>
                                   /\ AllDecimal(Strip(ReadLines(vip_file.text)[j]))}}

(* C5: for every order with order_total > 0 the percentages of its rows    *)
(* sum to 100 within 1e-6 (stated for the orders whose key no other order  *)
(* of the source carries, so that the group is the order's rows).          *)
C5_PercentagesSumTo100 ==
    Returned("transform") =>
        \A so \in SourceOrders :
            (/\ \A other \in SourceOrders : SourceKey(other) = SourceKey(so) => other = so
             /\ FGt0(OrderTotal(SourceItemsOf(so)).v)) =>
                Near100(GroupSum(SourceKey(so), Len(Rows)))

(* The cleaned text of a price: '$' and ',' removed, whitespace trimmed.   *)
Cleaned(s) == Strip(Remove(Remove(s, "$"), ","))

(* A number in text: an optional sign and decimal digits (underscores      *)
(* between digits allowed) with at most one point.                         *)
IsNumberText(t) ==
    /\ Unsigned(t) # <<>>
    /\ \A i \in 1..Len(Unsigned(t)) : Unsigned(t)[i] \in Decimals \cup {".", "_"}
    /\ DecimalOf(1, IF DotAt(Unsigned(t)) = 0 THEN Unsigned(t)
                    ELSE SubSeq(Unsigned(t), 1, DotAt(Unsigned(t)) - 1),
                 IF DotAt(Unsigned(t)) = 0 THEN <<>>
                    ELSE SubSeq(Unsigned(t), DotAt(Unsigned(t)) + 1, Len(Unsigned(t)))).out
           = "return"

(* C6: parse_price never raises; for text it returns the number the        *)
(* cleaned text states and 0.0 when the cleaned text is no number; for     *)
(* None and for values that are no number it returns 0.0.                  *)
C6_ParsePrice ==
    call.op = "parse_price" =>
        /\ call.res.out = "return"
        /\ call.value.t = "str" /\ IsNumberText(Cleaned(call.value.s)) =>
               call.res.v = FloatOfStr(Cleaned(call.value.s)).v
        /\ call.value.t = "str" /\ ~IsNumberText(Cleaned(call.value.s)) =>
               call.res.v = Zero
        /\ call.value.t \in {"None", "list", "bool"} => call.res.v = Zero

(* C7: in every row of the returned table total_item_price equals          *)
(* unit_price * item_quantity.                                             *)
C7_TotalIsProduct ==
    Returned("transform") =>
        \A i \in 1..Len(Rows) :
            FEq(Rows[i].rec.total_item_price,
                FMul(Rows[i].rec.unit_price, FOfInt(Rows[i].rec.item_quantity)))

(* C8: the rows of the returned table are non-decreasing in                *)
(* (customer_id, order_id, product_id) and carry the index 0..n-1 in that  *)
(* order.                                                                  *)
C8_SortedDenseIndex ==
    Returned("transform") =>
        /\ \A i \in 1..Len(Rows) : Rows[i].index = i - 1
        /\ \A i \in 1..(Len(Rows) - 1) : LexLeq(RowKey(i), RowKey(i + 1))

(* The source lists a later customer, order and item first: the table's    *)
(* first row comes from the last item of the source.                       *)
C8_Witness ==
    /\ Returned("transform")
    /\ Len(Rows) >= 2
    /\ Len(raw_data) = 2
    /\ Get(raw_data[1], "id") = PyInt(1)
    /\ Get(raw_data[2], "id") = PyStr(<<"x">>)
    /\ RowKey(1)[1] = 0
    /\ RowKey(Len(Rows))[1] = 1

(* C9: a load that fails names the source that failed: the orders source   *)
(* when it cannot be loaded, leaving vip_ids as constructed; the VIP       *)
(* source when the orders source loaded and the VIP source cannot be       *)
(* read; and a load returns only when both sources loaded.                 *)
C9_LoadFailureLabelled ==
    call.op = "load_data" =>
        /\ orders_file.st # "ok" =>
               /\ call.res = Raise([type |-> "RuntimeError",
                                    label |-> "Failed to load orders file"])
               /\ vip_ids = {}
        /\ orders_file.st = "ok" /\ vip_file.st # "ok" =>
               call.res = Raise([type |-> "RuntimeError",
                                 label |-> "Failed to load VIP customer IDs"])
        /\ call.res.out = "return" => orders_file.st = "ok" /\ vip_file.st = "ok"

(* The orders source loaded, the VIP source is missing, and load_data      *)
(* raised.                                                                 *)
C9_Witness ==
    /\ Raised("load_data")
    /\ orders_file.st = "ok"
    /\ raw_data # <<>>
    /\ vip_file.st = "missing"

Labels == {"Electronics", "Apparel", "Books", "Home Goods", "Misc"}

(* The label of a raw category code.                                       *)
LabelOf(code) ==
    IF code = PyInt(1) THEN "Electronics"
    ELSE IF code = PyInt(2) THEN "Apparel"
    ELSE IF code = PyInt(3) THEN "Books"
    ELSE IF code = PyInt(4) THEN "Home Goods"
    ELSE "Misc"

(* C10: every row's category is one of the five labels; the row of a       *)
(* single item has the label of the item's code when the code is an        *)
(* integer, and 'Misc' when it is absent, None or text.                    *)
C10_CategoryIsLabel ==
    Returned("transform") =>
        /\ \A i \in 1..Len(Rows) : Rows[i].rec.category \in Labels
        /\ (SingleItem /\ TheItem.category.t \in {"int", "absent", "None", "str"}) =>
               Rows[1].rec.category = LabelOf(TheItem.category)

(* The single item has the unrecognized code 99 and its row says 'Misc'.   *)
C10_Witness ==
    /\ Returned("transform")
    /\ SingleItem
    /\ TheItem.category = PyInt(99)
    /\ Rows[1].rec.category = "Misc"

====
